---------------------------- MODULE Spec2Model ----------------------------
(***************************************************************************)
(* TradePulse: a trade-journal dashboard (React).  The model covers the    *)
(* trade repository held by App (load, create, update, delete, persist),   *)
(* the trade form, the filter engine and time-window resolver, the         *)
(* in-place sort done by the trade-history table, the statistics           *)
(* aggregator, and the price-lookup / analysis requests.                   *)
(*                                                                         *)
(* Representation.                                                         *)
(*  - A string is a sequence of one-character strings; the empty string   *)
(*    is << >>.                                                            *)
(*  - A calendar date "YYYY-MM-DD" is the one-element sequence << d >>,    *)
(*    d the number of days since 1970-01-01; the empty date input is << >>.*)
(*  - An instant is an integer number of ticks since the epoch, with      *)
(*    TicksPerDay ticks in a day (the code's unit is the millisecond; the  *)
(*    last instant of a day, 23:59:59.999, is the day's last tick).        *)
(*  - Prices and quantities are integers (whole units), and arithmetic is  *)
(*    exact: the rounding of floating-point sums is not modelled.  A       *)
(*    quotient is kept as the pair of its dividend and divisor.            *)
(*  - A nullable number is a record [k, v]: Null, Num(n), or EmptyStr      *)
(*    (the empty string a legacy blob may hold where a number belongs).    *)
(*  - The remarks field of a trade takes no part in any computation and   *)
(*    is left out.                                                         *)
(***************************************************************************)
EXTENDS Integers, Sequences, FiniteSets, TLC

\* ------------------------------------------------------------------ bounds

\* Ticks in a day (time resolution of the model).
TicksPerDay == 8
\* The day (since the epoch) around which "now" is drawn.
BaseDay == 400
\* How many trades generateLargeDataset produces in the model.
GenCount == 2
\* How many distinct outcomes Math.random().toString(36) has in the model.
MaxRandom == 2
\* How many create/update/delete operations one run performs.
MaxOps == 2
\* The user acts on one of the first MaxRow rows of the rendered table.
MaxRow == 2
\* The longest list handed to a derived computation on its own.
MaxLen == 3
\* How many fetchPrices runs the interval and the Refresh button let overlap.
MaxRuns == 2
\* How many getStockPrice calls of the form await their result at once.
MaxFormLookups == 1
\* How many analyzeTrades calls await their result at once.
MaxAnalysis == 1
\* How many settled service calls are kept.
MaxCalls == 2
\* The price a lookup finds for a symbol of no letters.
Quote == 100

\* --------------------------------------------------------- program constants

\* new Date(8640000000000000): the largest Date, 100,000,000 days after the epoch.
MaxDateDays == 100000000
\* parsed.length < 50
SeedThreshold == 50
\* filteredTrades.slice(0, 5) on the dashboard
RecentRows == 5
\* 10 * 365 * 24 * 60 * 60 * 1000: the days of a year
DaysPerYear == 365
\* start.setDate(today.getDate() - 7) and - 30
WeekDays == 7
MonthDays == 30
\* new Date(0): the year of the epoch
EpochYear == 1970
\* "YYYY-MM-DD": the digits of the year of a date's text, and of the rest
IsoYearDigits == 4
DayDigits == 3
\* the digits of 2^32 - 2, the largest array index, less one
IndexDigits == 9

\* ------------------------------------------------------------------ values

Null == [k |-> "null", v |-> 0]
EmptyStr == [k |-> "str", v |-> 0]
Num(n) == [k |-> "num", v |-> n]

Min(a, b) == IF a <= b THEN a ELSE b

\* String.prototype.toUpperCase over the model's alphabet.
UpperChar(c) ==
  CASE c = "a" -> "A"
    [] c = "l" -> "L"
    [] c = "p" -> "P"
    [] c = "s" -> "S"
    [] c = "t" -> "T"
    [] OTHER -> c
ToUpperCase(s) == [i \in 1..Len(s) |-> UpperChar(s[i])]

\* String.prototype.includes
Includes(s, sub) ==
  \E i \in 0..(Len(s) - Len(sub)) : SubSeq(s, i + 1, i + Len(sub)) = sub

\* One decimal digit character to its value, and back.
DigitChars == <<"0", "1", "2", "3", "4", "5", "6", "7", "8", "9">>
IsDigit(c) == \E i \in 1..10 : DigitChars[i] = c
DigitVal(c) == (CHOOSE i \in 1..10 : DigitChars[i] = c) - 1

\* The value of the longest prefix of digits of s, given the value acc so far.
RECURSIVE ParseDigits(_, _)
ParseDigits(s, acc) ==
  IF s = << >> \/ ~IsDigit(Head(s)) THEN acc
  ELSE ParseDigits(Tail(s), acc * 10 + DigitVal(Head(s)))

\* parseInt / parseFloat on the content of a number input: an optional sign
\* followed by digits (a number input never holds anything else but "").
ParseNumber(s) ==
  IF s # << >> /\ Head(s) = "-" THEN 0 - ParseDigits(Tail(s), 0)
  ELSE ParseDigits(s, 0)

\* Number.prototype.toString for integers.
RECURSIVE NatToString(_)
NatToString(n) ==
  IF n < 10 THEN << DigitChars[n + 1] >>
  ELSE Append(NatToString(n \div 10), DigitChars[(n % 10) + 1])
NumberToString(n) ==
  IF n < 0 THEN << "-" >> \o NatToString(0 - n) ELSE NatToString(n)

\* -------------------------------------------------------------------- time

\* new Date(8640000000000000).getTime()
MaxDate == MaxDateDays * TicksPerDay

\* new Date("YYYY-MM-DD").getTime(): a date-only ISO string is parsed as
\* midnight UTC of that date.
ParseDateUTC(date) == date[1] * TicksPerDay

\* d.toISOString().split('T')[0]: the UTC calendar date of an instant.
ToISODate(t) == << t \div TicksPerDay >>

\* The local calendar day (getFullYear/getMonth/getDate) of instant t where
\* local time = UTC + off.
LocalDay(t, off) == (t + off) \div TicksPerDay

\* new Date(y, m, d): local midnight of a local calendar day, as an instant.
LocalMidnight(day, off) == day * TicksPerDay - off

\* d.setHours(23, 59, 59, 999): the last instant of the local day holding t.
EndOfLocalDay(t, off) == LocalMidnight(LocalDay(t, off), off) + TicksPerDay - 1

\* new Date(now.getFullYear(), 0, 1): January 1 of the local year of a day
\* (years of DaysPerYear days).
StartOfYear(day) == (day \div DaysPerYear) * DaysPerYear


\* ------------------------------------------------------------------ trades

\* interface Trade (remarks left out)
Trade(id, symbol, buyPrice, sellPrice, quantity, date, timestamp) ==
  [id |-> id, symbol |-> symbol, buyPrice |-> buyPrice, sellPrice |-> sellPrice,
   quantity |-> quantity, date |-> date, timestamp |-> timestamp]

\* enum TimeFrame
TimeFrames == {"ALL", "TODAY", "WEEK", "MONTH", "YTD", "YEAR", "CUSTOM"}

\* Array.prototype.sort((a, b) => b.timestamp - a.timestamp): a stable sort,
\* larger timestamps first.  The result is, for each timestamp from the
\* largest down, the elements with that timestamp in their input order.
RECURSIVE SortKeysDesc(_, _)
SortKeysDesc(s, keys) ==
  IF keys = {} THEN << >>
  ELSE LET m == CHOOSE a \in keys : \A b \in keys : b <= a
       IN SelectSeq(s, LAMBDA t : t.timestamp = m) \o SortKeysDesc(s, keys \ {m})

SortDesc(s) == SortKeysDesc(s, {s[i].timestamp : i \in 1..Len(s)})

\* The [start, end] interval the filter uses for a time frame (the switch of
\* filteredTrades); now is the current instant, off the local UTC offset.
WindowStart(tf, cs, now, off) ==
  LET day == LocalDay(now, off) IN
  CASE tf = "TODAY" -> LocalMidnight(day, off)
    [] tf = "WEEK" -> LocalMidnight(day - WeekDays, off)
    [] tf = "MONTH" -> LocalMidnight(day - MonthDays, off)
    [] tf = "YTD" -> LocalMidnight(StartOfYear(day), off)
    [] tf = "YEAR" -> LocalMidnight(day - DaysPerYear, off)
    [] tf = "CUSTOM" /\ cs # << >> -> ParseDateUTC(cs)
    [] OTHER -> 0

\* An upper bound that stops the non-custom frames at the day after BaseDay.
WindowEndCapped(tf, ce, off) ==
  IF tf = "CUSTOM" /\ ce # << >> THEN EndOfLocalDay(ParseDateUTC(ce), off)
  ELSE (BaseDay + 1) * TicksPerDay

\* end: new Date(8640000000000000), or the end of the custom end date's day
WindowEnd(tf, ce, off) ==
  IF tf = "CUSTOM" /\ ce # << >> THEN EndOfLocalDay(ParseDateUTC(ce), off)
  ELSE MaxDate

\* The symbol step of filteredTrades.
SymbolFilter(ts, sf) ==
  IF sf # << >>
  THEN SelectSeq(ts, LAMBDA t : Includes(t.symbol, ToUpperCase(sf)))
  ELSE ts

\* A time step that leaves out a trade at the very end of the interval.
TimeFilterEndExclusive(ts, tf, cs, ce, now, off) ==
  IF tf # "ALL"
  THEN SelectSeq(ts, LAMBDA t :
         /\ t.timestamp >= WindowStart(tf, cs, now, off)
         /\ t.timestamp < WindowEnd(tf, ce, off))
  ELSE ts

\* The time step of filteredTrades.
TimeFilter(ts, tf, cs, ce, now, off) ==
  IF tf # "ALL"
  THEN SelectSeq(ts, LAMBDA t :
         /\ t.timestamp >= WindowStart(tf, cs, now, off)
         /\ t.timestamp <= WindowEnd(tf, ce, off))
  ELSE ts

\* filteredTrades
FilteredTrades(ts, sf, tf, cs, ce, now, off) ==
  TimeFilter(SymbolFilter(ts, sf), tf, cs, ce, now, off)

\* Whether filteredTrades is the very array held in the trades state: neither
\* filter step ran, so result is still the reference assigned from trades.
FilteredIsTrades(sf, tf) == sf = << >> /\ tf = "ALL"

\* The trades array after a render of App with the given tab and filters:
\* on the Trade Log tab TradeHistory sorts the array it is given in place,
\* and that array is the trades state itself when no filter step ran.  On
\* the dashboard TradeHistory is given a slice (a copy).
TradesAfterRender(ts, tab, sf, tf) ==
  IF tab = "log" /\ FilteredIsTrades(sf, tf) THEN SortDesc(ts) ELSE ts

\* The rows TradeHistory shows on a tab, in display order.
DisplayedRows(ts, tab, sf, tf, cs, ce, now, off) ==
  LET f == FilteredTrades(ts, sf, tf, cs, ce, now, off) IN
  CASE tab = "log" -> SortDesc(f)
    [] tab = "dashboard" -> SortDesc(SubSeq(f, 1, Min(RecentRows, Len(f))))
    [] OTHER -> << >>

\* -------------------------------------------------------------- statistics

\* A quotient a / b (b > 0) of the code, kept exact as a pair.
Frac(n, d) == [num |-> n, den |-> d]

\* -Infinity and Infinity, the initial values of best and worst.
NegInfinity == [k |-> "neginf", v |-> 0]
PosInfinity == [k |-> "posinf", v |-> 0]

\* t.sellPrice as number
SellValue(t) == t.sellPrice.v

\* A profit that leaves out the quantity.
ProfitPerShare(t) == SellValue(t) - t.buyPrice

\* (sellPrice - t.buyPrice) * t.quantity
Profit(t) == (SellValue(t) - t.buyPrice) * t.quantity

\* A test that would count a break-even trade as a win.
IsWinAtLeastZero(profit) == profit >= 0

\* if (profit > 0) wins++
IsWin(profit) == profit > 0

\* A partition that takes every trade as closed.
ClosedTradesAll(ts) == ts

\* filteredTrades.filter(t => t.sellPrice !== null)
ClosedTrades(ts) == SelectSeq(ts, LAMBDA t : t.sellPrice # Null)

\* filteredTrades.reduce((sum, t) => sum + t.buyPrice, 0), from index i on
RECURSIVE SumBuyPrice(_, _, _)
SumBuyPrice(ts, i, sum) ==
  IF i > Len(ts) THEN sum ELSE SumBuyPrice(ts, i + 1, sum + ts[i].buyPrice)

\* An iteration that sets best and worst at the first closed trade only.
ClosedStepFirstOnly(acc, t) ==
  LET profit == Profit(t) IN
  [totalProfit |-> acc.totalProfit + profit,
   totalSellPrice |-> acc.totalSellPrice + SellValue(t),
   wins |-> IF IsWin(profit) THEN acc.wins + 1 ELSE acc.wins,
   best |-> IF acc.best = NegInfinity THEN Num(profit) ELSE acc.best,
   worst |-> IF acc.worst = PosInfinity THEN Num(profit) ELSE acc.worst]

\* One iteration of closedTrades.forEach on the running totals.
ClosedStep(acc, t) ==
  LET profit == Profit(t) IN
  [totalProfit |-> acc.totalProfit + profit,
   totalSellPrice |-> acc.totalSellPrice + SellValue(t),
   wins |-> IF IsWin(profit) THEN acc.wins + 1 ELSE acc.wins,
   best |-> IF acc.best = NegInfinity \/ profit > acc.best.v
            THEN Num(profit) ELSE acc.best,
   worst |-> IF acc.worst = PosInfinity \/ profit < acc.worst.v
             THEN Num(profit) ELSE acc.worst]

\* closedTrades.forEach(...), from index i on
RECURSIVE ForEachClosed(_, _, _)
ForEachClosed(closed, i, acc) ==
  IF i > Len(closed) THEN acc
  ELSE ForEachClosed(closed, i + 1, ClosedStep(acc, closed[i]))

\* A record for the empty list that reports a full win rate.
EmptyStatsAllWins ==
  [totalProfit |-> 0, avgBuyPrice |-> Frac(0, 1), avgSellPrice |-> Frac(0, 1),
   avgProfitPerTrade |-> Frac(0, 1), winRate |-> Frac(100, 1), totalTrades |-> 0,
   openPositions |-> 0, bestTrade |-> 0, worstTrade |-> 0]

\* The record returned when filteredTrades.length === 0.
EmptyStats ==
  [totalProfit |-> 0, avgBuyPrice |-> Frac(0, 1), avgSellPrice |-> Frac(0, 1),
   avgProfitPerTrade |-> Frac(0, 1), winRate |-> Frac(0, 1), totalTrades |-> 0,
   openPositions |-> 0, bestTrade |-> 0, worstTrade |-> 0]

\* The stats memo of App for a filtered list.
Stats(ft) ==
  IF Len(ft) = 0
  THEN EmptyStats
  ELSE
    LET totalTrades == Len(ft)
        closedTrades == ClosedTrades(ft)
        totalBuyPrice == SumBuyPrice(ft, 1, 0)
        acc == ForEachClosed(closedTrades, 1,
                 [totalProfit |-> 0, totalSellPrice |-> 0, wins |-> 0,
                  best |-> NegInfinity, worst |-> PosInfinity])
    IN [totalProfit |-> acc.totalProfit,
        avgBuyPrice |-> IF totalTrades > 0 THEN Frac(totalBuyPrice, totalTrades)
                        ELSE Frac(0, 1),
        avgSellPrice |-> IF Len(closedTrades) > 0
                         THEN Frac(acc.totalSellPrice, Len(closedTrades))
                         ELSE Frac(0, 1),
        avgProfitPerTrade |-> IF Len(closedTrades) > 0
                              THEN Frac(acc.totalProfit, Len(closedTrades))
                              ELSE Frac(0, 1),
        winRate |-> IF Len(closedTrades) > 0
                    THEN Frac(acc.wins * 100, Len(closedTrades))
                    ELSE Frac(0, 1),
        totalTrades |-> totalTrades,
        openPositions |-> totalTrades - Len(closedTrades),
        bestTrade |-> IF acc.best = NegInfinity THEN 0 ELSE acc.best.v,
        worstTrade |-> IF acc.worst = PosInfinity THEN 0 ELSE acc.worst.v]

\* ------------------------------------------------- series and allocation

\* A quotient a / b whose divisor is 0 is NaN (0 / 0) or an infinity.
Finite(q) == q.den # 0

\* The elements of a sequence, each once, in the order of first occurrence
\* (the insertion order of an object's keys).
DistinctInOrder(keys) ==
  LET at == [i \in 1..Len(keys) |-> [i |-> i, key |-> keys[i]]]
      firsts == SelectSeq(at, LAMBDA e : \A j \in 1..(e.i - 1) : keys[j] # e.key)
  IN [k \in 1..Len(firsts) |-> firsts[k].key]

\* The sum of a sequence of numbers from index i on.
RECURSIVE SumFrom(_, _, _)
SumFrom(xs, i, sum) ==
  IF i > Len(xs) THEN sum ELSE SumFrom(xs, i + 1, sum + xs[i])

\* A sort that leaves the pairs in the order given.
SortPairsAsGiven(ps, keys) == ps

\* Array.prototype.sort((a, b) => b.key - a.key) on [key, row] pairs: stable,
\* larger keys first.
RECURSIVE SortPairsDesc(_, _)
SortPairsDesc(ps, keys) ==
  IF keys = {} THEN << >>
  ELSE LET m == CHOOSE a \in keys : \A b \in keys : b <= a
       IN SelectSeq(ps, LAMBDA e : e.key = m) \o SortPairsDesc(ps, keys \ {m})

\* The text of a date, "YYYY-MM-DD" of the date input: the year in at least
\* IsoYearDigits digits (more when the year needs them), then the day within
\* the year in DayDigits digits (the model's calendar has years of
\* DaysPerYear days and no months).
PadLeft(s, n) == [i \in 1..(n - Len(s)) |-> "0"] \o s
DateString(day) ==
  PadLeft(NatToString(EpochYear + (day \div DaysPerYear)), IsoYearDigits)
    \o << "-" >> \o PadLeft(NatToString(day % DaysPerYear), DayDigits)

\* The order of two characters of a date's text by code unit ("-" is below
\* the digits).
CharCode(c) == IF c = "-" THEN 0 ELSE DigitVal(c) + 1

\* a < b in the default order of Array.prototype.sort(): by code units,
\* a prefix before the longer string.
RECURSIVE StringLess(_, _)
StringLess(a, b) ==
  IF b = << >> THEN FALSE
  ELSE IF a = << >> THEN TRUE
  ELSE IF Head(a) = Head(b) THEN StringLess(Tail(a), Tail(b))
  ELSE CharCode(Head(a)) < CharCode(Head(b))

\* Object.keys(dailyProfits).sort(): the dates in the ascending order of
\* their texts.
RECURSIVE SortedDates(_)
SortedDates(days) ==
  IF days = {} THEN << >>
  ELSE LET m == CHOOSE a \in days :
                  \A b \in days \ {a} : StringLess(DateString(a), DateString(b))
       IN << m >> \o SortedDates(days \ {m})

\* Whether a property key is an array index: the canonical text of an
\* integer below 2^32 - 1.  Only keys of up to IndexDigits digits are looked
\* at, which are all below that limit.
IsArrayIndex(key) ==
  /\ Len(key) \in 1..IndexDigits
  /\ \A i \in 1..Len(key) : IsDigit(key[i])
  /\ Len(key) > 1 => key[1] # "0"

\* Numbers in ascending order.
RECURSIVE SortAsc(_)
SortAsc(ns) ==
  IF ns = {} THEN << >>
  ELSE LET m == CHOOSE a \in ns : \A b \in ns : a <= b
       IN << m >> \o SortAsc(ns \ {m})

\* Object.keys of an object whose properties were created in the order of
\* keys: the array indices first, in ascending numeric order, then the
\* other keys in the order of their creation.
ObjectKeys(keys) ==
  LET distinct == DistinctInOrder(keys)
      indices == SortAsc({ParseDigits(distinct[i], 0) :
                            i \in {j \in 1..Len(distinct) : IsArrayIndex(distinct[j])}})
  IN [i \in 1..Len(indices) |-> NatToString(indices[i])]
       \o SelectSeq(distinct, LAMBDA key : ~IsArrayIndex(key))

\* dailyProfits[date]: the profits of the closed trades of a date, summed in
\* list order.
DailyProfit(ts, day) ==
  LET of == SelectSeq(ts, LAMBDA t : t.sellPrice # Null /\ t.date = << day >>)
  IN SumFrom([i \in 1..Len(of) |-> Profit(of[i])], 1, 0)

\* A running total that is not carried from date to date.
RunningTotalDaily(ts, dates, k) ==
  IF k = 0 THEN 0 ELSE DailyProfit(ts, dates[k])

\* runningTotal after the dates up to index k of the sorted dates
RECURSIVE RunningTotal(_, _, _)
RunningTotal(ts, dates, k) ==
  IF k = 0 THEN 0
  ELSE RunningTotal(ts, dates, k - 1) + DailyProfit(ts, dates[k])

\* chartData of TradeCharts
ChartData(ts) ==
  LET closed == SelectSeq(ts, LAMBDA t : t.sellPrice # Null)
      sortedDates == SortedDates({closed[i].date[1] : i \in 1..Len(closed)})
  IN [k \in 1..Len(sortedDates) |->
        [date |-> << sortedDates[k] >>,
         dailyProfit |-> DailyProfit(ts, sortedDates[k]),
         cumulative |-> RunningTotal(ts, sortedDates, k)]]

\* tickerPerformance of TradeCharts
TickerPerformance(ts) ==
  LET closed == SelectSeq(ts, LAMBDA t : t.sellPrice # Null)
      symbols == ObjectKeys([i \in 1..Len(closed) |-> closed[i].symbol])
      perf == [k \in 1..Len(symbols) |->
                 LET of == SelectSeq(closed, LAMBDA t : t.symbol = symbols[k])
                     totalProfit == SumFrom([i \in 1..Len(of) |-> Profit(of[i])], 1, 0)
                 IN [key |-> totalProfit,
                     row |-> [symbol |-> symbols[k],
                              avgProfit |-> Frac(totalProfit, Len(of)),
                              totalProfit |-> totalProfit]]]
      sorted == SortPairsDesc(perf, {perf[k].key : k \in 1..Len(perf)})
  IN [k \in 1..Len(sorted) |-> sorted[k].row]

\* avgBuy: data.investedAmount / data.totalShares
AvgBuy(investedAmount, totalShares) == Frac(investedAmount, totalShares)

\* A share of a total that leaves out the "* 100".
PercentageAsRatio(investedAmount, totalInvested) ==
  IF totalInvested > 0 THEN Frac(investedAmount, totalInvested) ELSE Frac(0, 1)

\* percentage: totalInvested > 0 ? (data.investedAmount / totalInvested) * 100 : 0
Percentage(investedAmount, totalInvested) ==
  IF totalInvested > 0 THEN Frac(investedAmount * 100, totalInvested) ELSE Frac(0, 1)

\* portfolioData of PortfolioOverview
PortfolioData(ts) ==
  LET symbols == ObjectKeys([i \in 1..Len(ts) |-> ts[i].symbol])
      summary == [k \in 1..Len(symbols) |->
                    LET of == SelectSeq(ts, LAMBDA t : t.symbol = symbols[k])
                    IN [symbol |-> symbols[k],
                        totalShares |->
                          SumFrom([i \in 1..Len(of) |-> of[i].quantity], 1, 0),
                        investedAmount |->
                          SumFrom([i \in 1..Len(of) |-> of[i].buyPrice * of[i].quantity],
                                  1, 0)]]
      totalInvested ==
        SumFrom([k \in 1..Len(summary) |-> summary[k].investedAmount], 1, 0)
      rows == [k \in 1..Len(summary) |->
                 [key |-> summary[k].investedAmount,
                  row |-> [symbol |-> summary[k].symbol,
                           shares |-> summary[k].totalShares,
                           amount |-> summary[k].investedAmount,
                           avgBuy |-> AvgBuy(summary[k].investedAmount,
                                             summary[k].totalShares),
                           percentage |-> Percentage(summary[k].investedAmount,
                                                     totalInvested)]]]
      sorted == SortPairsDesc(rows, {rows[k].key : k \in 1..Len(rows)})
  IN [k \in 1..Len(sorted) |-> sorted[k].row]

\* ------------------------------------------------------------- persistence

\* The sanitizing map of the save effect.
Sanitize(ts) ==
  [i \in 1..Len(ts) |->
     [ts[i] EXCEPT !.sellPrice = IF ts[i].sellPrice = EmptyStr THEN Null
                                 ELSE ts[i].sellPrice]]

\* JSON.stringify of a trade list: the stored blob.
JsonStringify(ts) == [kind |-> "json", list |-> ts]

\* localStorage.setItem('tradePulse_trades', JSON.stringify(sanitizedTrades))
SavedBlob(ts) == JsonStringify(Sanitize(ts))

\* No item under the key, and an item that JSON.parse rejects.
MissingBlob == [kind |-> "missing", list |-> << >>]
CorruptBlob == [kind |-> "corrupt", list |-> << >>]


\* ------------------------------------------------------------------- state

VARIABLES
  app,              \* "unmounted", "running", or "crashed" (render threw)
  storage,          \* localStorage item 'tradePulse_trades'
  now,              \* the current instant (new Date())
  tz,               \* local time minus UTC, in ticks
  trades,           \* App state: the trade list
  activeTab,        \* App state
  stockFilter,      \* App state
  timeFrame,        \* App state
  customStartDate,  \* App state
  customEndDate,    \* App state
  isModalOpen,      \* App state
  editingTrade,     \* App state: << >> (null) or << trade >>
  form,             \* TradeForm state: symbol, buyPrice, sellPrice, quantity, date
  ops,              \* number of create/update/delete operations done
  usedIds,          \* every id a trade of the list has had so far
  isFetchingPrice,  \* TradeForm state
  fetchedPrice,     \* TradeForm state: Null or Num(price)
  formLookups,      \* getStockPrice calls of the form awaiting their result
  prices,           \* LiveTicker state: symbol -> price
  loading,          \* LiveTicker state
  tickerRuns,       \* fetchPrices runs awaiting results
  analysisPending,  \* analyzeTrades calls awaiting their result
  issued,           \* the requests the last step started
  calcTrades,       \* the list handed to a derived computation
  stats,            \* << >> or << the TradeStats computed from calcTrades >>
  chartData,        \* << >> or << the daily/cumulative series of calcTrades >>
  tickerPerformance, \* << >> or << the per-symbol ranking of calcTrades >>
  portfolioData,    \* << >> or << the allocation rows of calcTrades >>
  filterArgs,       \* the symbol filter, time frame and custom dates given to the filter
  filterOut,        \* << >> or << the filter's output for calcTrades and filterArgs >>
  settled           \* the service calls settled so far: function, outcome, settlement

repoVars == <<app, storage, now, tz, trades, activeTab, stockFilter, timeFrame,
              customStartDate, customEndDate, isModalOpen, editingTrade, form,
              ops, usedIds>>

lookupVars == <<isFetchingPrice, fetchedPrice, formLookups, prices, loading,
                tickerRuns, analysisPending, issued>>

calcVars == <<calcTrades, stats, chartData, tickerPerformance, portfolioData,
              filterArgs, filterOut, settled>>

vars == <<repoVars, lookupVars, calcVars>>

\* --------------------------------------------------------- input enumeration

\* Local UTC offsets (ticks).
TzOffsets == {0 - 2, 0, 2}

\* The instants "now" is drawn from: early and late in UTC day BaseDay.
NowChoices == {BaseDay * TicksPerDay + 1, BaseDay * TicksPerDay + TicksPerDay - 1}

TSLA == <<"T", "S", "L", "A">>
AAPL == <<"A", "A", "P", "L">>

\* Outcomes of one iteration of generateLargeDataset's loop: the time offset
\* (within the last ten years), the symbol, prices within the drawn ranges,
\* the quantity and the id's random suffix.
GenDraws ==
  { [offset |-> 1, symbol |-> TSLA, buyPrice |-> 200, sellPrice |-> Num(220),
     quantity |-> 10, r |-> 1],
    [offset |-> TicksPerDay + 2, symbol |-> AAPL, buyPrice |-> 150,
     sellPrice |-> Null, quantity |-> 5, r |-> 2] }

\* Contents of the trade form as the user may leave them before submitting.
FormFill(symbol, buyPrice, sellPrice, quantity, date) ==
  [symbol |-> symbol, buyPrice |-> buyPrice, sellPrice |-> sellPrice,
   quantity |-> quantity, date |-> date]

FormInputs ==
  { FormFill(<<"a", "a", "p", "l">>, <<"5">>, <<"7">>, <<"3">>, << BaseDay + 1 >>),
    FormFill(TSLA, <<"1", "2">>, << >>, <<"2">>, << BaseDay >>),
    FormFill(AAPL, <<"0">>, <<"-", "1">>, <<"-", "2">>, << BaseDay - 1 >>),
    FormFill(<< >>, <<"5">>, << >>, <<"3">>, << BaseDay >>) }

\* Contents of the form with one required field left empty.
IncompleteForms ==
  { FormFill(<< >>, <<"5">>, << >>, <<"3">>, << BaseDay >>),
    FormFill(AAPL, << >>, <<"7">>, <<"3">>, << BaseDay >>),
    FormFill(AAPL, <<"5">>, << >>, << >>, << BaseDay >>),
    FormFill(AAPL, <<"5">>, << >>, <<"3">>, << >>) }

\* Values typed into the symbol filter.
StockFilterInputs == {<< >>, <<"a", "a">>}

\* A stored list of SeedThreshold trades, as an earlier session saved it
\* (creation order; record 1 with the legacy empty-string sell price).
StoredTrade(i) ==
  Trade([kind |-> "rand", n |-> 0, r |-> i],
        IF i % 2 = 0 THEN TSLA ELSE AAPL,
        10 + i,
        IF i = 1 THEN EmptyStr ELSE IF i % 3 = 0 THEN Null ELSE Num(12 + (i % 5)),
        1 + (i % 4),
        << BaseDay - (i % 3) >>,
        (BaseDay - (i % 3)) * TicksPerDay)

StoredFull == [i \in 1..SeedThreshold |-> StoredTrade(i)]
StoredSmall == SubSeq(StoredFull, 1, 2)

StoredBlobs ==
  {MissingBlob, CorruptBlob, JsonStringify(StoredSmall), JsonStringify(StoredFull)}

\* ------------------------------------------------------------ construction

\* useState's initial form fields
BlankForm(t) == FormFill(<< >>, << >>, << >>, << >>, ToISODate(t))

\* The state before App's first render, for a stored item, an instant and
\* a UTC offset.
InitRepo(blobs, nows, offsets) ==
  /\ app = "unmounted"
  /\ storage \in blobs
  /\ now \in nows
  /\ tz \in offsets
  /\ trades = << >>
  /\ activeTab = "dashboard"
  /\ stockFilter = << >>
  /\ timeFrame = "ALL"
  /\ customStartDate = << >>
  /\ customEndDate = << >>
  /\ isModalOpen = FALSE
  /\ editingTrade = << >>
  /\ form = BlankForm(now)
  /\ ops = 0
  /\ usedIds = {}

\* useState's initial values in TradeForm and LiveTicker; nothing requested.
InitLookup ==
  /\ isFetchingPrice = FALSE
  /\ fetchedPrice = Null
  /\ formLookups = << >>
  /\ prices = << >>
  /\ loading = FALSE
  /\ tickerRuns = << >>
  /\ analysisPending = 0
  /\ issued = << >>

\* The arguments of the filter: stockFilter, timeFrame and the custom dates.
FilterArgs(sf, tf, cs, ce) == [sf |-> sf, tf |-> tf, cs |-> cs, ce |-> ce]

\* The derived computations not yet run, for an input list and arguments
\* of the filter.
InitCalc(lists, args) ==
  /\ calcTrades \in lists
  /\ stats = << >>
  /\ chartData = << >>
  /\ tickerPerformance = << >>
  /\ portfolioData = << >>
  /\ filterArgs \in args
  /\ filterOut = << >>
  /\ settled = << >>

\* useState's initial values of the filter state
NoFilter == FilterArgs(<< >>, "ALL", << >>, << >>)

InitWith(blobs, nows, offsets) ==
  InitRepo(blobs, nows, offsets) /\ InitLookup /\ InitCalc({<< >>}, {NoFilter})

Init == InitWith(StoredBlobs, {BaseDay * TicksPerDay + 1}, {0})

\* One trade pushed by generateLargeDataset's loop at index i (0-based) for a
\* draw d, at instant t.
GeneratedTrade(i, d, t) ==
  Trade([kind |-> "test", n |-> i, r |-> d.r], d.symbol, d.buyPrice, d.sellPrice,
        d.quantity, ToISODate(t - d.offset), t - d.offset)

\* generateLargeDataset: every list it can return at instant t.
GeneratedDatasets(t) ==
  { SortDesc([i \in 1..GenCount |-> GeneratedTrade(i - 1, ds[i], t)]) :
      ds \in [1..GenCount -> GenDraws] }


\* ---------------------------------------------------------------- handlers

\* The ids of a trade list.
IdsOf(ts) == {ts[i].id : i \in 1..Len(ts)}

\* What the useState initializer of trades yields for a stored item at
\* instant t: the set of lists it may return, empty when JSON.parse throws.
InitialTrades(blob, t) ==
  IF blob.kind = "corrupt" THEN {}
  ELSE LET parsed == IF blob.kind = "missing" THEN << >> ELSE blob.list IN
       IF Len(parsed) < SeedThreshold THEN GeneratedDatasets(t) ELSE {parsed}

\* First render of App: the trades initializer, the render, the save effect.
Mount ==
  /\ app = "unmounted"
  /\ IF InitialTrades(storage, now) = {}
     THEN /\ app' = "crashed"
          /\ UNCHANGED <<storage, trades, usedIds>>
     ELSE /\ app' = "running"
          /\ \E ts \in InitialTrades(storage, now) :
               trades' = TradesAfterRender(ts, activeTab, stockFilter, timeFrame)
          /\ storage' = SavedBlob(trades')
          /\ usedIds' = IdsOf(trades')
  /\ UNCHANGED <<now, tz, activeTab, stockFilter, timeFrame, customStartDate,
                 customEndDate, isModalOpen, editingTrade, form, ops>>

\* The page can be used: App rendered, and the modal overlay (which covers
\* the page while the form is open) is not shown.
PageUsable == app = "running" /\ ~isModalOpen

\* A state change of App that leaves the trades reference alone: App renders
\* again with the new tab and filters, the save effect does not run.
Rerender(tab, sf, tf) ==
  /\ trades' = TradesAfterRender(trades, tab, sf, tf)
  /\ UNCHANGED <<app, storage, now, tz, ops, usedIds>>

\* setActiveTab
SetActiveTab(tab) ==
  /\ PageUsable
  /\ tab # activeTab
  /\ activeTab' = tab
  /\ Rerender(tab, stockFilter, timeFrame)
  /\ UNCHANGED <<stockFilter, timeFrame, customStartDate, customEndDate,
                 isModalOpen, editingTrade, form>>

\* setStockFilter
SetStockFilter(sf) ==
  /\ PageUsable
  /\ sf # stockFilter
  /\ stockFilter' = sf
  /\ Rerender(activeTab, sf, timeFrame)
  /\ UNCHANGED <<activeTab, timeFrame, customStartDate, customEndDate,
                 isModalOpen, editingTrade, form>>

\* setTimeFrame
SetTimeFrame(tf) ==
  /\ PageUsable
  /\ tf # timeFrame
  /\ timeFrame' = tf
  /\ Rerender(activeTab, stockFilter, tf)
  /\ UNCHANGED <<activeTab, stockFilter, customStartDate, customEndDate,
                 isModalOpen, editingTrade, form>>

\* setCustomStartDate (the input is shown with TimeFrame.CUSTOM only)
SetCustomStartDate(d) ==
  /\ PageUsable
  /\ timeFrame = "CUSTOM"
  /\ d # customStartDate
  /\ customStartDate' = d
  /\ Rerender(activeTab, stockFilter, timeFrame)
  /\ UNCHANGED <<activeTab, stockFilter, timeFrame, customEndDate,
                 isModalOpen, editingTrade, form>>

\* setCustomEndDate
SetCustomEndDate(d) ==
  /\ PageUsable
  /\ timeFrame = "CUSTOM"
  /\ d # customEndDate
  /\ customEndDate' = d
  /\ Rerender(activeTab, stockFilter, timeFrame)
  /\ UNCHANGED <<activeTab, stockFilter, timeFrame, customStartDate,
                 isModalOpen, editingTrade, form>>

\* The rows of the table on screen.
Rows ==
  DisplayedRows(trades, activeTab, stockFilter, timeFrame, customStartDate,
                customEndDate, now, tz)

\* TradeForm's open/reset effect for initialData = a trade.
FormFromTrade(t) ==
  FormFill(t.symbol,
           NumberToString(t.buyPrice),
           IF t.sellPrice = Null THEN << >>
           ELSE IF t.sellPrice = EmptyStr THEN << >>
           ELSE NumberToString(t.sellPrice.v),
           NumberToString(t.quantity),
           t.date)

\* handleNewTradeClick, then TradeForm's open/reset effect
NewTradeClick ==
  /\ PageUsable
  /\ ops < MaxOps
  /\ editingTrade' = << >>
  /\ isModalOpen' = TRUE
  /\ form' = BlankForm(now)
  /\ Rerender(activeTab, stockFilter, timeFrame)
  /\ UNCHANGED <<activeTab, stockFilter, timeFrame, customStartDate, customEndDate>>

\* handleEditClick on row i, then TradeForm's open/reset effect
EditClick(i) ==
  /\ PageUsable
  /\ ops < MaxOps
  /\ i \in 1..Len(Rows)
  /\ editingTrade' = << Rows[i] >>
  /\ isModalOpen' = TRUE
  /\ form' = FormFromTrade(Rows[i])
  /\ Rerender(activeTab, stockFilter, timeFrame)
  /\ UNCHANGED <<activeTab, stockFilter, timeFrame, customStartDate, customEndDate>>

\* onClose (the X and Cancel buttons): setIsModalOpen(false)
CloseModal ==
  /\ app = "running"
  /\ isModalOpen
  /\ isModalOpen' = FALSE
  /\ Rerender(activeTab, stockFilter, timeFrame)
  /\ UNCHANGED <<activeTab, stockFilter, timeFrame, customStartDate, customEndDate,
                 editingTrade, form>>

\* A guard that does not look at the symbol.
FormIncompleteIgnoringSymbol(f) ==
  f.buyPrice = << >> \/ f.quantity = << >> \/ f.date = << >>

\* handleSubmit's guard: a required field is empty.
FormIncomplete(f) ==
  f.symbol = << >> \/ f.buyPrice = << >> \/ f.quantity = << >> \/ f.date = << >>

\* The object handleSubmit passes to onSave.
TradeData(f) ==
  [symbol |-> ToUpperCase(f.symbol),
   buyPrice |-> ParseNumber(f.buyPrice),
   sellPrice |-> IF f.sellPrice = << >> THEN Null ELSE Num(ParseNumber(f.sellPrice)),
   quantity |-> ParseNumber(f.quantity),
   date |-> f.date]

\* { ...t, ...tradeData, timestamp: new Date(tradeData.date).getTime() }
UpdatedTrade(t, data) ==
  Trade(t.id, data.symbol, data.buyPrice, data.sellPrice, data.quantity,
        data.date, ParseDateUTC(data.date))

\* { ...tradeData, id: generateId(), timestamp: new Date(tradeData.date).getTime() }
NewTrade(id, data) ==
  Trade(id, data.symbol, data.buyPrice, data.sellPrice, data.quantity,
        data.date, ParseDateUTC(data.date))

\* generateId(): a random string; two calls may return the same one.
GeneratedIds == {[kind |-> "rand", n |-> 0, r |-> r] : r \in 1..MaxRandom}

\* The list handleSaveTrade sets: the edited record replaced by id, or the
\* new record appended.
SavedTrades(ts, editing, data, id) ==
  IF editing # << >>
  THEN [i \in 1..Len(ts) |->
          IF ts[i].id = editing[1].id THEN UpdatedTrade(ts[i], data) ELSE ts[i]]
  ELSE Append(ts, NewTrade(id, data))

\* A state change that sets a new trades array: render, then the save effect.
Commit(ts) ==
  /\ trades' = TradesAfterRender(ts, activeTab, stockFilter, timeFrame)
  /\ storage' = SavedBlob(trades')
  /\ ops' = ops + 1
  /\ usedIds' = usedIds \cup IdsOf(ts)
  /\ UNCHANGED <<app, now, tz, activeTab, stockFilter, timeFrame,
                 customStartDate, customEndDate>>

\* The user leaves the form's fields as f (the inputs' onChange handlers) and
\* submits; handleSubmit returns at once when a required field is empty.
SubmitRejected(f) ==
  /\ app = "running"
  /\ isModalOpen
  /\ FormIncomplete(f)
  /\ form' = f
  /\ Rerender(activeTab, stockFilter, timeFrame)
  /\ UNCHANGED <<activeTab, stockFilter, timeFrame, customStartDate, customEndDate,
                 isModalOpen, editingTrade>>

\* The user leaves the form's fields as f and submits:
\* handleSubmit -> handleSaveTrade
Submit(f) ==
  /\ app = "running"
  /\ isModalOpen
  /\ ~FormIncomplete(f)
  /\ form' = f
  /\ \E id \in (IF editingTrade # << >> THEN {editingTrade[1].id} ELSE GeneratedIds) :
       Commit(SavedTrades(trades, editingTrade, TradeData(f), id))
  /\ isModalOpen' = FALSE
  /\ editingTrade' = << >>

\* handleDeleteTrade on row i, the confirmation accepted
DeleteClick(i) ==
  /\ PageUsable
  /\ ops < MaxOps
  /\ i \in 1..Len(Rows)
  /\ Commit(SelectSeq(trades, LAMBDA t : t.id # Rows[i].id))
  /\ UNCHANGED <<isModalOpen, editingTrade, form>>

\* handleDeleteTrade on row i, the confirmation declined
DeleteDeclined(i) ==
  /\ PageUsable
  /\ i \in 1..Len(Rows)
  /\ UNCHANGED repoVars

\* ----------------------------------------------------------------- service

\* How a promise settles.
Fulfilled(value) == [state |-> "fulfilled", value |-> value]
Rejected == [state |-> "rejected", value |-> Null]

\* What the external service does to a call: process.env.API_KEY is not set;
\* the client or the request throws; the response has no text; the response
\* has a text (for a price lookup: without or with a number in it).
AnalysisOutcomes == {"noKey", "error", "empty", "text"}
PriceOutcomes == {"noKey", "error", "empty", "noPrice", "price"}

\* A string value.
Str(text) == [type |-> "string", text |-> text]

\* A try whose catch is left out: a throw in the body rejects the promise.
TryWithoutCatch(body, handler) == body

\* try { body } catch (error) { return handler }: the async function's
\* promise for a body that returned or threw.
TryCatch(body, handler) ==
  IF body.state = "rejected" THEN Fulfilled(handler) ELSE body

\* The body of analyzeTrades' try block.
AnalyzeTradesBody(outcome) ==
  CASE outcome = "noKey" ->
         Fulfilled(Str("API Key not configured. Please check your environment settings."))
    [] outcome = "error" -> Rejected
    [] outcome = "empty" -> Fulfilled(Str("Could not generate analysis."))
    [] OTHER -> Fulfilled(Str("narrative"))

\* analyzeTrades
AnalyzeTrades(outcome) ==
  TryCatch(AnalyzeTradesBody(outcome),
           Str("An error occurred while analyzing your trades. Please try again later."))

\* The body of getStockPrice's try block: null without a key or without a
\* number in the text, else { price, text }.
GetStockPriceBody(symbol, outcome) ==
  CASE outcome = "noKey" -> Fulfilled(Null)
    [] outcome = "error" -> Rejected
    [] outcome = "price" ->
         Fulfilled([price |-> Quote + Len(symbol), text |-> "answer"])
    [] OTHER -> Fulfilled(Null)

\* getStockPrice
GetStockPrice(symbol, outcome) == TryCatch(GetStockPriceBody(symbol, outcome), Null)

\* ----------------------------------------------------------------- lookups

\* A request started: a getStockPrice call of the form or of the ticker for
\* a symbol, or an analyzeTrades call.
Request(kind, symbol) == [kind |-> kind, symbol |-> symbol]

\* What getStockPrice may resolve to for a symbol: null (no API key, no price
\* in the answer, or an error), or the price found in the answer.
LookupResults(symbol) == {Null, Num(Quote + Len(symbol))}

\* LiveTicker is on screen: App rendered the dashboard tab.
TickerMounted(a, tab) == a = "running" /\ tab = "dashboard"

\* trades.filter(t => t.sellPrice === null), then
\* Array.from(new Set(openTrades.map(t => t.symbol))): the symbols of the
\* open trades, each once, in the order of first occurrence.
HeldSymbols(ts) ==
  LET open == SelectSeq(ts, LAMBDA t : t.sellPrice = Null)
      at == [i \in 1..Len(open) |-> [i |-> i, symbol |-> open[i].symbol]]
      firsts == SelectSeq(at, LAMBDA e :
                  \A j \in 1..(e.i - 1) : open[j].symbol # e.symbol)
  IN [k \in 1..Len(firsts) |-> firsts[k].symbol]

\* The getStockPrice calls one run of fetchPrices makes for the held symbols.
TickerRequests(held) == [k \in 1..Len(held) |-> Request("ticker", held[k])]

\* A name for a call of fetchPrices that no pending run has: the least
\* number not in use.
FreshRun(runs) ==
  CHOOSE k \in 0..Len(runs) :
    /\ \A i \in 1..Len(runs) : runs[i].id # k
    /\ \A j \in 0..(k - 1) : \E i \in 1..Len(runs) : runs[i].id = j

\* fetchPrices for the held symbols: nothing when there are none, else
\* setLoading(true) and one run awaiting one result per symbol.
FetchPrices(held, runs, wasLoading) ==
  IF held = << >>
  THEN /\ tickerRuns' = runs
       /\ loading' = wasLoading
       /\ issued' = << >>
  ELSE /\ tickerRuns' = Append(runs, [id |-> FreshRun(runs),
                                      pending |-> {held[k] : k \in 1..Len(held)},
                                      newPrices |-> << >>])
       /\ loading' = TRUE
       /\ issued' = TickerRequests(held)

\* What a render of App does to LiveTicker: unmounted off the dashboard (its
\* state is dropped and its interval cleared); mounted with fresh state and
\* its effect run when the dashboard appears; its effect run again when
\* heldSymbols.join(',') changed.
TickerFollows ==
  IF ~TickerMounted(app', activeTab')
  THEN /\ prices' = << >>
       /\ loading' = FALSE
       /\ tickerRuns' = << >>
       /\ issued' = << >>
  ELSE IF ~TickerMounted(app, activeTab)
  THEN /\ prices' = << >>
       /\ FetchPrices(HeldSymbols(trades'), << >>, FALSE)
  ELSE IF HeldSymbols(trades') # HeldSymbols(trades)
  THEN /\ prices' = prices
       /\ FetchPrices(HeldSymbols(trades'), tickerRuns, loading)
  ELSE /\ UNCHANGED <<prices, loading, tickerRuns>>
       /\ issued' = << >>

\* A step of App with what it does to the ticker; the form's lookups and the
\* analysis requests go on.
OnPage(A) ==
  /\ A
  /\ TickerFollows
  /\ UNCHANGED <<isFetchingPrice, formLookups, analysisPending, calcVars>>

\* setInterval(fetchPrices, 300000) fires
TickerInterval ==
  /\ TickerMounted(app, activeTab)
  /\ Len(tickerRuns) < MaxRuns
  /\ FetchPrices(HeldSymbols(trades), tickerRuns, loading)
  /\ UNCHANGED <<prices, repoVars, isFetchingPrice, fetchedPrice, formLookups,
                 analysisPending, calcVars>>

\* The ticker's Refresh button (shown with held symbols, disabled while loading)
RefreshClick ==
  /\ TickerMounted(app, activeTab)
  /\ ~isModalOpen
  /\ HeldSymbols(trades) # << >>
  /\ ~loading
  /\ Len(tickerRuns) < MaxRuns
  /\ FetchPrices(HeldSymbols(trades), tickerRuns, loading)
  /\ UNCHANGED <<prices, repoVars, isFetchingPrice, fetchedPrice, formLookups,
                 analysisPending, calcVars>>

\* A merge that keeps the new prices only.
MergePricesNewOnly(prev, new) == new

\* { ...prev, ...newPrices }
MergePrices(prev, new) ==
  [x \in (DOMAIN prev) \cup (DOMAIN new) |->
     IF x \in DOMAIN new THEN new[x] ELSE prev[x]]

\* newPrices[symbol] = result.price
WithPrice(new, symbol, price) ==
  [x \in (DOMAIN new) \cup {symbol} |-> IF x = symbol THEN price ELSE new[x]]

\* A sequence without its i-th element.
RemoveAt(s, i) == SubSeq(s, 1, i - 1) \o SubSeq(s, i + 1, Len(s))

\* A getStockPrice call of run i of fetchPrices resolves to r; when it is the
\* run's last one, Promise.all resolves and the run sets prices and loading.
TickerResult(i, symbol, r) ==
  /\ i \in 1..Len(tickerRuns)
  /\ symbol \in tickerRuns[i].pending
  /\ LET run == tickerRuns[i]
         new == IF r # Null THEN WithPrice(run.newPrices, symbol, r.v)
                ELSE run.newPrices
     IN IF run.pending = {symbol}
        THEN /\ prices' = MergePrices(prices, new)
             /\ loading' = FALSE
             /\ tickerRuns' = RemoveAt(tickerRuns, i)
        ELSE /\ tickerRuns' = [tickerRuns EXCEPT ![i] =
                                 [id |-> run.id, pending |-> run.pending \ {symbol},
                                  newPrices |-> new]]
             /\ UNCHANGED <<prices, loading>>
  /\ issued' = << >>
  /\ UNCHANGED <<repoVars, isFetchingPrice, fetchedPrice, formLookups,
                 analysisPending, calcVars>>

\* The symbol input's onChange: setSymbol(e.target.value)
TypeSymbol(symbol) ==
  /\ app = "running"
  /\ isModalOpen
  /\ symbol # form.symbol
  /\ form' = [form EXCEPT !.symbol = symbol]
  /\ Rerender(activeTab, stockFilter, timeFrame)
  /\ UNCHANGED <<activeTab, stockFilter, timeFrame, customStartDate, customEndDate,
                 isModalOpen, editingTrade>>

\* A handleFetchPrice that would call getStockPrice twice.
HandleFetchRequestsTwice(symbol) ==
  IF symbol = << >> THEN << >>
  ELSE << Request("form", symbol), Request("form", symbol) >>

\* The getStockPrice calls one handleFetchPrice makes: none without a symbol.
HandleFetchRequests(symbol) ==
  IF symbol = << >> THEN << >> ELSE << Request("form", symbol) >>

\* handleFetchPrice up to its await
HandleFetchPrice ==
  /\ isFetchingPrice' = (IF form.symbol = << >> THEN isFetchingPrice ELSE TRUE)
  /\ formLookups' = formLookups \o HandleFetchRequests(form.symbol)
  /\ issued' = HandleFetchRequests(form.symbol)
  /\ UNCHANGED <<repoVars, fetchedPrice, prices, loading, tickerRuns,
                 analysisPending, calcVars>>

\* !fetchedPrice
Falsy(price) == price = Null \/ price = Num(0)

\* The symbol input's onBlur: symbol && !fetchedPrice && handleFetchPrice()
SymbolBlur ==
  /\ app = "running"
  /\ isModalOpen
  /\ Len(formLookups) < MaxFormLookups
  /\ form.symbol # << >>
  /\ Falsy(fetchedPrice)
  /\ HandleFetchPrice

\* The "Get Current Price" button: disabled={!symbol || isFetchingPrice}
FetchPriceClick ==
  /\ app = "running"
  /\ isModalOpen
  /\ Len(formLookups) < MaxFormLookups
  /\ form.symbol # << >>
  /\ ~isFetchingPrice
  /\ HandleFetchPrice

\* handleFetchPrice after its await: call i of the form resolves to r
FormResult(i, r) ==
  /\ i \in 1..Len(formLookups)
  /\ r \in LookupResults(formLookups[i].symbol)
  /\ fetchedPrice' = (IF r # Null THEN r ELSE fetchedPrice)
  /\ isFetchingPrice' = FALSE
  /\ formLookups' = RemoveAt(formLookups, i)
  /\ issued' = << >>
  /\ UNCHANGED <<repoVars, prices, loading, tickerRuns, analysisPending, calcVars>>

\* The open/reset effect of TradeForm ends with setFetchedPrice(null).
OpenForm(A) == OnPage(A) /\ fetchedPrice' = Null

\* The analysis button of AIInsights: one analyzeTrades call
AnalyzeClick ==
  /\ PageUsable
  /\ analysisPending < MaxAnalysis
  /\ analysisPending' = analysisPending + 1
  /\ issued' = << Request("analysis", << >>) >>
  /\ UNCHANGED <<repoVars, isFetchingPrice, fetchedPrice, formLookups, prices,
                 loading, tickerRuns, calcVars>>

\* analyzeTrades resolves (to the narrative or to an error string)
AnalysisResult ==
  /\ analysisPending > 0
  /\ analysisPending' = analysisPending - 1
  /\ issued' = << >>
  /\ UNCHANGED <<repoVars, isFetchingPrice, fetchedPrice, formLookups, prices,
                 loading, tickerRuns, calcVars>>

\* ----------------------------------------------------------- specifications

\* A step of the repository taken on its own: the lookups and the derived
\* computations write no repository variable, and are left out.
Alone(A) == A /\ UNCHANGED <<lookupVars, calcVars>>

\* The repository and the form, with the symbol filter and the tabs.
Next ==
  \/ Alone(Mount)
  \/ \E tab \in {"dashboard", "log"} : Alone(SetActiveTab(tab))
  \/ \E sf \in StockFilterInputs : Alone(SetStockFilter(sf))
  \/ Alone(NewTradeClick)
  \/ \E i \in 1..MaxRow : Alone(EditClick(i))
  \/ Alone(CloseModal)
  \/ \E f \in FormInputs : Alone(SubmitRejected(f))
  \/ \E f \in FormInputs : Alone(Submit(f))
  \/ \E i \in 1..MaxRow : Alone(DeleteClick(i))
  \/ \E i \in 1..MaxRow : Alone(DeleteDeclined(i))

Spec == Init /\ [][Next]_vars


\* Dates and time frames, with trades entered through the form.
TimeForms ==
  { FormFill(AAPL, <<"5">>, <<"7">>, <<"3">>, << d >>) :
      d \in {BaseDay - 1, BaseDay, BaseDay + 1} }

CustomDateInputs == {<< >>, << BaseDay >>}

InitTime == InitWith({MissingBlob}, NowChoices, TzOffsets)

NextTime ==
  \/ Alone(Mount)
  \/ Alone(NewTradeClick)
  \/ Alone(CloseModal)
  \/ \E f \in TimeForms : Alone(Submit(f))
  \/ \E tf \in TimeFrames : Alone(SetTimeFrame(tf))
  \/ \E d \in CustomDateInputs : Alone(SetCustomStartDate(d))
  \/ \E d \in CustomDateInputs : Alone(SetCustomEndDate(d))

SpecTime == InitTime /\ [][NextTime]_vars

\* The lookups and the analysis requests, with the steps of App that mount
\* the ticker and change the held symbols.
LookupForms == { FormFill(TSLA, <<"1", "2">>, << >>, <<"2">>, << BaseDay >>) }

LookupSymbols == {<< >>, AAPL}

NextLookup ==
  \/ OnPage(Mount) /\ fetchedPrice' = fetchedPrice
  \/ \E tab \in {"dashboard", "log"} :
       OnPage(SetActiveTab(tab)) /\ fetchedPrice' = fetchedPrice
  \/ OpenForm(NewTradeClick)
  \/ OnPage(CloseModal) /\ fetchedPrice' = fetchedPrice
  \/ \E f \in LookupForms : OnPage(Submit(f)) /\ fetchedPrice' = fetchedPrice
  \/ \E symbol \in LookupSymbols :
       OnPage(TypeSymbol(symbol)) /\ fetchedPrice' = fetchedPrice
  \/ SymbolBlur
  \/ FetchPriceClick
  \/ \E i \in 1..MaxFormLookups : \E r \in LookupResults(AAPL) \cup LookupResults(TSLA) :
       FormResult(i, r)
  \/ TickerInterval
  \/ RefreshClick
  \/ \E i \in 1..MaxRuns + 1 : \E symbol \in {AAPL, TSLA} :
       \E r \in LookupResults(symbol) : TickerResult(i, symbol, r)
  \/ AnalyzeClick
  \/ AnalysisResult

InitLookups == InitWith({MissingBlob}, {BaseDay * TicksPerDay + 1}, {0})

SpecLookup == InitLookups /\ [][NextLookup]_vars

\* The first day of the first year whose text has more than IsoYearDigits
\* digits (the date input takes years of up to six digits).
LateDay == (10000 - EpochYear) * DaysPerYear

\* The statistics aggregator on its own: it is applied to every list of up
\* to MaxLen trades drawn from the sample trades (a winning, a losing and a
\* break-even closed trade, an open one, an open one of quantity 0 as the
\* form lets through, a closed one dated in the year 10000, and a closed one
\* whose symbol is a number).
SampleTrades ==
  << Trade(0, AAPL, 10, Num(15), 2, << BaseDay >>, BaseDay * TicksPerDay),
     Trade(0, TSLA, 20, Num(12), 3, << BaseDay - 1 >>, (BaseDay - 1) * TicksPerDay),
     Trade(0, AAPL, 7, Num(7), 1, << BaseDay - 2 >>, (BaseDay - 2) * TicksPerDay),
     Trade(0, TSLA, 30, Null, 4, << BaseDay >>, BaseDay * TicksPerDay),
     Trade(0, AAPL, 9, Null, 0, << BaseDay - 1 >>, (BaseDay - 1) * TicksPerDay),
     Trade(0, TSLA, 20, Num(21), 1, << LateDay >>, LateDay * TicksPerDay),
     Trade(0, << "7" >>, 5, Num(15), 1, << BaseDay >>, BaseDay * TicksPerDay) >>

SampleLists ==
  UNION { { [i \in 1..n |->
               [SampleTrades[pick[i]] EXCEPT !.id = [kind |-> "rand", n |-> 0, r |-> i]]] :
            pick \in [1..n -> 1..Len(SampleTrades)] } : n \in 0..MaxLen }

InitStats ==
  /\ InitRepo({MissingBlob}, {BaseDay * TicksPerDay + 1}, {0})
  /\ InitLookup
  /\ InitCalc(SampleLists, {NoFilter})

\* useMemo(() => ..., [filteredTrades]) run on the list
ComputeStats ==
  /\ stats = << >>
  /\ stats' = << Stats(calcTrades) >>
  /\ UNCHANGED <<calcTrades, chartData, tickerPerformance, portfolioData,
                 filterArgs, filterOut, settled, repoVars, lookupVars>>

\* chartData's useMemo run on the list
ComputeChartData ==
  /\ chartData = << >>
  /\ chartData' = << ChartData(calcTrades) >>
  /\ UNCHANGED <<calcTrades, stats, tickerPerformance, portfolioData,
                 filterArgs, filterOut, settled, repoVars, lookupVars>>

\* tickerPerformance's useMemo run on the list
ComputeTickerPerformance ==
  /\ tickerPerformance = << >>
  /\ tickerPerformance' = << TickerPerformance(calcTrades) >>
  /\ UNCHANGED <<calcTrades, stats, chartData, portfolioData,
                 filterArgs, filterOut, settled, repoVars, lookupVars>>

\* portfolioData's useMemo run on the list
ComputePortfolioData ==
  /\ portfolioData = << >>
  /\ portfolioData' = << PortfolioData(calcTrades) >>
  /\ UNCHANGED <<calcTrades, stats, chartData, tickerPerformance,
                 filterArgs, filterOut, settled, repoVars, lookupVars>>

NextStats ==
  \/ ComputeStats
  \/ ComputeChartData
  \/ ComputeTickerPerformance
  \/ ComputePortfolioData

SpecStats == InitStats /\ [][NextStats]_vars

\* The filter on its own: it is applied to every list of up to MaxLen trades
\* drawn from the sample trades (one dated before the epoch, one at the
\* first and one at the last instant of day BaseDay, one at the first
\* instant of the next day, one at the largest instant), for every symbol
\* filter, time frame and custom date of the inputs.
FilterSampleTrades ==
  << Trade(0, AAPL, 10, Num(12), 1, << 0 - 1 >>, 0 - TicksPerDay),
     Trade(0, AAPL, 10, Null, 1, << BaseDay >>, BaseDay * TicksPerDay),
     Trade(0, TSLA, 20, Num(25), 2, << BaseDay >>, BaseDay * TicksPerDay + TicksPerDay - 1),
     Trade(0, TSLA, 20, Null, 2, << BaseDay + 1 >>, (BaseDay + 1) * TicksPerDay),
     Trade(0, AAPL, 10, Null, 1, << MaxDateDays >>, MaxDate) >>

FilterSampleLists ==
  UNION { { [i \in 1..n |->
               [FilterSampleTrades[pick[i]] EXCEPT
                  !.id = [kind |-> "rand", n |-> 0, r |-> i]]] :
            pick \in [1..n -> 1..Len(FilterSampleTrades)] } : n \in 0..MaxLen }

FilterArgChoices ==
  { FilterArgs(sf, tf, << >>, << >>) :
      sf \in StockFilterInputs, tf \in TimeFrames \ {"CUSTOM"} }
  \cup
  { FilterArgs(sf, "CUSTOM", cs, ce) :
      sf \in StockFilterInputs, cs \in CustomDateInputs, ce \in CustomDateInputs }

InitFilter ==
  /\ InitRepo({MissingBlob}, NowChoices, TzOffsets)
  /\ InitLookup
  /\ InitCalc(FilterSampleLists, FilterArgChoices)

\* filteredTrades' useMemo run on the list with the arguments
ApplyFilter ==
  /\ filterOut = << >>
  /\ filterOut' = << FilteredTrades(calcTrades, filterArgs.sf, filterArgs.tf,
                                    filterArgs.cs, filterArgs.ce, now, tz) >>
  /\ UNCHANGED <<calcTrades, stats, chartData, tickerPerformance, portfolioData,
                 filterArgs, settled, repoVars, lookupVars>>

NextFilter == ApplyFilter

SpecFilter == InitFilter /\ [][NextFilter]_vars

\* The trade form on its own: the page is opened on a stored list, the form
\* is opened for a new record or for a row, filled in and submitted or closed.
InitForm == InitWith({JsonStringify(StoredFull)}, {BaseDay * TicksPerDay + 1}, {0})

NextForm ==
  \/ Alone(Mount)
  \/ Alone(NewTradeClick)
  \/ \E i \in 1..MaxRow : Alone(EditClick(i))
  \/ Alone(CloseModal)
  \/ \E f \in IncompleteForms : Alone(SubmitRejected(f))
  \/ \E f \in FormInputs : Alone(Submit(f))

SpecForm == InitForm /\ [][NextForm]_vars

\* The two service functions on their own: each is called for every outcome
\* of the external service, and its settlement is kept.
InitService == InitWith({MissingBlob}, {BaseDay * TicksPerDay + 1}, {0})

\* An analyzeTrades call settles.
SettleAnalyzeTrades(outcome) ==
  /\ Len(settled) < MaxCalls
  /\ settled' = Append(settled, [fn |-> "analyzeTrades", outcome |-> outcome,
                                 result |-> AnalyzeTrades(outcome)])
  /\ UNCHANGED <<calcTrades, stats, chartData, tickerPerformance, portfolioData,
                 filterArgs, filterOut, repoVars, lookupVars>>

\* A getStockPrice call settles.
SettleGetStockPrice(symbol, outcome) ==
  /\ Len(settled) < MaxCalls
  /\ settled' = Append(settled, [fn |-> "getStockPrice", outcome |-> outcome,
                                 result |-> GetStockPrice(symbol, outcome)])
  /\ UNCHANGED <<calcTrades, stats, chartData, tickerPerformance, portfolioData,
                 filterArgs, filterOut, repoVars, lookupVars>>

NextService ==
  \/ \E o \in AnalysisOutcomes : SettleAnalyzeTrades(o)
  \/ \E symbol \in {AAPL, << "7" >>}, o \in PriceOutcomes : SettleGetStockPrice(symbol, o)

SpecService == InitService /\ [][NextService]_vars

\* The live ticker on its own, with every lookup answered in the end: the
\* page is opened on the generated list or on a stored list with two held
\* symbols, the interval fires and Refresh is clicked while runs are pending,
\* and the lookups respond in any order.
InitTicker ==
  InitWith({MissingBlob, JsonStringify(StoredFull)}, {BaseDay * TicksPerDay + 1}, {0})

\* A lookup of the run at index i responds.
TickerResponds(i) ==
  \E symbol \in {AAPL, TSLA} : \E r \in LookupResults(symbol) : TickerResult(i, symbol, r)

NextTicker ==
  \/ OnPage(Mount) /\ fetchedPrice' = fetchedPrice
  \/ TickerInterval
  \/ RefreshClick
  \/ \E i \in 1..MaxRuns + 1 : TickerResponds(i)

\* getStockPrice settles for every call (it never stays pending).
EveryLookupResponds == \A i \in 1..MaxRuns + 1 : WF_vars(TickerResponds(i))

SpecTicker == InitTicker /\ [][NextTicker]_vars /\ EveryLookupResponds

\* ------------------------------------------------------------------ claims

\* filteredTrades in the current state.
Filtered ==
  FilteredTrades(trades, stockFilter, timeFrame, customStartDate, customEndDate,
                 now, tz)

InSeq(t, s) == \E j \in 1..Len(s) : s[j] = t

\* How many trades of a list have an id.
CountId(ts, id) == Cardinality({i \in 1..Len(ts) : ts[i].id = id})

\* C1: the trade list is changed only by the initial load and by create,
\* update and delete; no other step (a render of the trade-history table for
\* any tab or filter selection among them) changes its contents or order.
C1_OnlyMutationsChangeTrades ==
  [][trades' # trades =>
       \/ Mount
       \/ \E f \in FormInputs : Submit(f)
       \/ \E i \in 1..MaxRow : DeleteClick(i)]_repoVars

\* C2: every trade of the repository has timestamp equal to the instant of
\* local midnight of its date.
C2_TimestampIsLocalMidnight ==
  \A i \in 1..Len(trades) :
    trades[i].timestamp = LocalMidnight(trades[i].date[1], tz)

\* C3: with TimeFrame.CUSTOM and an end date E (and a start date not after
\* E), the filter output holds every trade dated E and no trade dated the
\* day after E.
C3_CustomEndInclusive ==
  (/\ app = "running"
   /\ timeFrame = "CUSTOM"
   /\ stockFilter = << >>
   /\ customEndDate # << >>
   /\ customStartDate # << >> => customStartDate[1] <= customEndDate[1])
  => \A i \in 1..Len(trades) :
       /\ trades[i].date = customEndDate => InSeq(trades[i], Filtered)
       /\ trades[i].date = << customEndDate[1] + 1 >> => ~InSeq(trades[i], Filtered)

\* C4: with TimeFrame.TODAY and an empty symbol filter, every trade dated
\* today (the local calendar date) or later is in the filter output.
C4_TodayIncludesTodayAndLater ==
  (app = "running" /\ timeFrame = "TODAY" /\ stockFilter = << >>)
  => \A i \in 1..Len(trades) :
       trades[i].date[1] >= LocalDay(now, tz) => InSeq(trades[i], Filtered)

\* C5: an id that a step gives to a trade of the list is held by that trade
\* alone and is none of the ids any trade of the list has had before.
C5_IdsNeverReused ==
  [][\A id \in IdsOf(trades') :
       CountId(trades', id) > CountId(trades, id)
         => id \notin usedIds /\ CountId(trades', id) = 1]_repoVars

\* C6: every trade of the repository has quantity > 0 and buyPrice > 0, and
\* a sellPrice that is absent or >= 0.
C6_FieldRanges ==
  \A i \in 1..Len(trades) :
    /\ trades[i].quantity > 0
    /\ trades[i].buyPrice > 0
    /\ trades[i].sellPrice.k = "num" => trades[i].sellPrice.v >= 0

\* C7: loading never fails; with a missing or corrupt stored item the
\* repository starts with the generated sample data.
C7_LoadNeverFails ==
  /\ app # "crashed"
  /\ (app = "running" /\ ops = 0 /\ Len(trades) < SeedThreshold)
       => trades \in GeneratedDatasets(now)

\* C8: once a create, update or delete has been processed, the stored item
\* is the serialization of the trade list in memory, record for record in
\* the same order, an empty sellPrice written as null; it holds no
\* empty-string sellPrice.
C8_BlobMatchesTrades ==
  (app = "running" /\ ops > 0) =>
    /\ storage.kind = "json"
    /\ Len(storage.list) = Len(trades)
    /\ \A i \in 1..Len(trades) :
         /\ storage.list[i].sellPrice # EmptyStr
         /\ storage.list[i] =
              [trades[i] EXCEPT !.sellPrice =
                 IF trades[i].sellPrice = EmptyStr THEN Null ELSE trades[i].sellPrice]

\* A step in which the user asks for a lookup or an analysis: the symbol
\* input losing focus, the form's price button, the ticker's Refresh button,
\* the analysis button.
UserRequestStep == SymbolBlur \/ FetchPriceClick \/ RefreshClick \/ AnalyzeClick

\* A step after which the ticker's effect runs: the ticker is mounted, or
\* stays mounted with other held symbols.
TickerEffectStep ==
  /\ TickerMounted(app', activeTab')
  /\ \/ ~TickerMounted(app, activeTab)
     \/ HeldSymbols(trades') # HeldSymbols(trades)

HasKind(reqs, kinds) == \E k \in 1..Len(reqs) : reqs[k].kind \in kinds

\* C9 (as the code has it): a price lookup of the trade form or an analysis
\* request is started only by a step in which the user asks for it, one call
\* per such step, so none follows a failed one by itself.  Lookups of the
\* live ticker are started, one per held symbol, by the Refresh button and
\* also without a user request: when the ticker is mounted, when the held
\* symbols change, and when its five-minute interval fires.
C9_RequestsStartOnTrigger ==
  [][/\ HasKind(issued', {"form", "analysis"})
          => /\ SymbolBlur \/ FetchPriceClick \/ AnalyzeClick
             /\ Len(issued') = 1
     /\ HasKind(issued', {"ticker"})
          => /\ RefreshClick \/ TickerInterval \/ TickerEffectStep
             /\ issued' = TickerRequests(HeldSymbols(trades'))]_vars

\* C9 as stated: no lookup and no analysis request is started by a step
\* other than one in which the user asks for it.
C9_OnlyOnUserRequest ==
  [][issued' # << >> => UserRequestStep]_vars

\* The user has just started a lookup from the form while lookups of the
\* ticker, started at mount, await their results.
C9_Witness ==
  /\ issued = << Request("form", AAPL) >>
  /\ formLookups = issued
  /\ tickerRuns # << >>

\* Some closed trade of the list the statistics were computed from, with
\* profit above zero.
SomeClosedWin ==
  \E i \in 1..Len(calcTrades) :
    calcTrades[i].sellPrice # Null /\ Profit(calcTrades[i]) > 0

\* C10 (as the code has it): winRate is within 0 and 100, and it is 0
\* exactly when no closed trade of the list has profit above zero (no closed
\* trade at all among the cases).
C10_WinRateRange ==
  stats # << >> =>
    LET w == stats[1].winRate IN
    /\ w.den > 0
    /\ 0 <= w.num
    /\ w.num <= 100 * w.den
    /\ w.num = 0 <=> ~SomeClosedWin

\* C10 as stated: winRate is 0 exactly when the list has no closed trade.
C10_ZeroIffNoClosed ==
  stats # << >> =>
    (stats[1].winRate.num = 0 <=> ClosedTrades(calcTrades) = << >>)

\* Statistics computed for a list with closed trades none of which won.
C10_Witness ==
  /\ stats # << >>
  /\ ClosedTrades(calcTrades) # << >>
  /\ ~SomeClosedWin
  /\ stats[1].winRate.num = 0

\* The statistics, the series, the ranking and the allocation computed from
\* calcTrades, once they are.
StatsOut == stats[1]
Series == chartData[1]
Ranking == tickerPerformance[1]
Allocation == portfolioData[1]

\* The positions of calcTrades holding a closed trade.
ClosedAt == {i \in 1..Len(calcTrades) : calcTrades[i].sellPrice # Null}

\* (sellPrice - buyPrice) * quantity of the trade at position i of calcTrades.
ProfitAt(i) ==
  (calcTrades[i].sellPrice.v - calcTrades[i].buyPrice) * calcTrades[i].quantity

\* The sum of f over a finite set of positions.
RECURSIVE SumOver(_, _)
SumOver(S, f) ==
  IF S = {} THEN 0
  ELSE LET i == CHOOSE j \in S : TRUE IN f[i] + SumOver(S \ {i}, f)

\* The sum of the profits of the closed trades of calcTrades.
ClosedProfitSum == SumOver(ClosedAt, [i \in ClosedAt |-> ProfitAt(i)])

\* A quotient of the code that is exactly 0.
IsZero(q) == q.num = 0 /\ q.den # 0

\* C11: the cumulative value of the last tuple of the daily/cumulative
\* series equals the totalProfit of the statistics for the same list, and
\* the series is empty exactly when the list has no closed trade.
C11_LastCumulativeIsTotalProfit ==
  (stats # << >> /\ chartData # << >>) =>
    /\ Series = << >> <=> ClosedAt = {}
    /\ Series # << >> => Series[Len(Series)].cumulative = StatsOut.totalProfit

\* Both computed for a list with closed trades on two dates and an open trade.
C11_Witness ==
  /\ stats # << >>
  /\ chartData # << >>
  /\ Len(Series) >= 2
  /\ ClosedAt # 1..Len(calcTrades)
  /\ Series[Len(Series)].cumulative = StatsOut.totalProfit

\* C12: totalProfit is the sum of (sellPrice - buyPrice) * quantity over
\* exactly the trades whose sellPrice is present.
C12_TotalProfitIsClosedSum ==
  stats # << >> => StatsOut.totalProfit = ClosedProfitSum

\* Statistics computed for a list with an open trade of quantity above 0 and
\* two closed trades.
C12_Witness ==
  /\ stats # << >>
  /\ Cardinality(ClosedAt) = 2
  /\ \E i \in 1..Len(calcTrades) :
       calcTrades[i].sellPrice = Null /\ calcTrades[i].quantity > 0
  /\ StatsOut.totalProfit # 0

\* C13: with a closed trade, bestTrade is the largest and worstTrade the
\* smallest profit of the closed trades; with none, bestTrade, worstTrade,
\* totalProfit, avgSellPrice, avgProfitPerTrade and winRate are 0 and
\* openPositions is the number of trades.
C13_BestWorstAndNoClosed ==
  stats # << >> =>
    IF ClosedAt # {}
    THEN /\ \E i \in ClosedAt : StatsOut.bestTrade = ProfitAt(i)
         /\ \A i \in ClosedAt : ProfitAt(i) <= StatsOut.bestTrade
         /\ \E i \in ClosedAt : StatsOut.worstTrade = ProfitAt(i)
         /\ \A i \in ClosedAt : StatsOut.worstTrade <= ProfitAt(i)
    ELSE /\ StatsOut.bestTrade = 0
         /\ StatsOut.worstTrade = 0
         /\ StatsOut.totalProfit = 0
         /\ IsZero(StatsOut.avgSellPrice)
         /\ IsZero(StatsOut.avgProfitPerTrade)
         /\ IsZero(StatsOut.winRate)
         /\ StatsOut.openPositions = Len(calcTrades)

\* Statistics computed for a list of three closed trades whose best trade is
\* the last and whose worst is neither the first nor the last.
C13_Witness ==
  /\ stats # << >>
  /\ ClosedAt = 1..3
  /\ StatsOut.bestTrade = ProfitAt(3)
  /\ StatsOut.bestTrade > ProfitAt(1)
  /\ StatsOut.worstTrade = ProfitAt(2)
  /\ StatsOut.worstTrade < ProfitAt(1)

\* C14: openPositions plus the number of trades with sellPrice present is
\* totalTrades, and totalTrades is the length of the list.
C14_OpenPlusClosedIsTotal ==
  stats # << >> =>
    /\ StatsOut.openPositions + Cardinality(ClosedAt) = StatsOut.totalTrades
    /\ StatsOut.totalTrades = Len(calcTrades)

\* Statistics computed for a list with both open and closed trades.
C14_Witness ==
  /\ stats # << >>
  /\ StatsOut.openPositions > 0
  /\ Cardinality(ClosedAt) > 0

\* The total invested amount of calcTrades.
TotalInvested ==
  SumOver(1..Len(calcTrades),
          [i \in 1..Len(calcTrades) |-> calcTrades[i].buyPrice * calcTrades[i].quantity])

\* C15: the percentages of the allocation rows sum to 100 when the total
\* invested amount is above 0 (the rows share the divisor totalInvested),
\* and every percentage is 0 when the total invested amount is 0.
C15_PercentagesSumTo100 ==
  portfolioData # << >> =>
    /\ TotalInvested > 0 =>
         /\ \A k \in 1..Len(Allocation) : Allocation[k].percentage.den = TotalInvested
         /\ SumOver(1..Len(Allocation),
                    [k \in 1..Len(Allocation) |-> Allocation[k].percentage.num])
              = 100 * TotalInvested
    /\ TotalInvested = 0 =>
         \A k \in 1..Len(Allocation) : IsZero(Allocation[k].percentage)

\* Allocation computed for a list of two symbols with money in both.
C15_Witness ==
  /\ portfolioData # << >>
  /\ Len(Allocation) = 2
  /\ \A k \in 1..2 : Allocation[k].percentage.num > 0

\* C16: no quotient in the results of the statistics, the series, the
\* ranking or the allocation has a zero divisor (none is NaN or infinite).
C16_NoZeroDivisor ==
  /\ stats # << >> =>
       /\ Finite(StatsOut.avgBuyPrice)
       /\ Finite(StatsOut.avgSellPrice)
       /\ Finite(StatsOut.avgProfitPerTrade)
       /\ Finite(StatsOut.winRate)
  /\ tickerPerformance # << >> =>
       \A k \in 1..Len(Ranking) : Finite(Ranking[k].avgProfit)
  /\ portfolioData # << >> =>
       \A k \in 1..Len(Allocation) :
         Finite(Allocation[k].avgBuy) /\ Finite(Allocation[k].percentage)

\* C17: for the empty list every field of the statistics is 0, and the
\* allocation, the series and the ranking are empty.
C17_EmptyListGivesZeros ==
  calcTrades = << >> =>
    /\ stats # << >> =>
         /\ StatsOut.totalProfit = 0
         /\ IsZero(StatsOut.avgBuyPrice)
         /\ IsZero(StatsOut.avgSellPrice)
         /\ IsZero(StatsOut.avgProfitPerTrade)
         /\ IsZero(StatsOut.winRate)
         /\ StatsOut.totalTrades = 0
         /\ StatsOut.openPositions = 0
         /\ StatsOut.bestTrade = 0
         /\ StatsOut.worstTrade = 0
    /\ portfolioData # << >> => Allocation = << >>
    /\ chartData # << >> => Series = << >>
    /\ tickerPerformance # << >> => Ranking = << >>

\* All four computed for the empty list.
C17_Witness ==
  /\ calcTrades = << >>
  /\ stats # << >>
  /\ portfolioData # << >>
  /\ chartData # << >>
  /\ tickerPerformance # << >>

\* The start and the end of the interval resolved for filterArgs.
ResolvedStart == WindowStart(filterArgs.tf, filterArgs.cs, now, tz)
ResolvedEnd == WindowEnd(filterArgs.tf, filterArgs.ce, tz)

\* The symbol of a trade contains the upper-cased filter string.
SymbolMatches(t) == Includes(t.symbol, ToUpperCase(filterArgs.sf))

\* The timestamp of a trade is within the resolved interval, ends included.
InInterval(t) == ResolvedStart <= t.timestamp /\ t.timestamp <= ResolvedEnd

\* C18 (as the code has it): the filter's output is the subsequence of the
\* input, in the input's order, of the trades whose symbol contains the
\* upper-cased filter string and whose timestamp is within the resolved
\* interval, ends included; with the time frame ALL the timestamp is not
\* looked at.
C18_FilterIsSubsequence ==
  filterOut # << >> =>
    filterOut[1] =
      SelectSeq(calcTrades, LAMBDA t :
        SymbolMatches(t) /\ (filterArgs.tf = "ALL" \/ InInterval(t)))

\* C18 as stated: the timestamp is within the resolved interval for every
\* time frame, ALL with its interval from the epoch on among them.
C18_FilterIsIntervalSubsequence ==
  filterOut # << >> =>
    filterOut[1] =
      SelectSeq(calcTrades, LAMBDA t : SymbolMatches(t) /\ InInterval(t))

\* The filter applied with a custom end date and a symbol filter to three
\* trades: the output holds a trade at the very end of the interval and
\* leaves out one trade by its symbol and one by its timestamp.
C18_Witness ==
  /\ filterOut # << >>
  /\ filterArgs.tf = "CUSTOM"
  /\ filterArgs.sf # << >>
  /\ Len(calcTrades) = 3
  /\ Len(filterOut[1]) = 1
  /\ filterOut[1][1].timestamp = ResolvedEnd
  /\ \E i \in 1..3 : ~SymbolMatches(calcTrades[i])
  /\ \E i \in 1..3 : SymbolMatches(calcTrades[i]) /\ ~InInterval(calcTrades[i])

\* C19: with a time frame other than CUSTOM the filter's output holds every
\* trade (matching the symbol filter) whose timestamp is at or after the
\* frame's start, however late it is; with ALL it holds every such trade
\* whatever its timestamp.
C19_NoUpperBound ==
  (filterOut # << >> /\ filterArgs.tf # "CUSTOM") =>
    \A i \in 1..Len(calcTrades) :
      (/\ SymbolMatches(calcTrades[i])
       /\ filterArgs.tf = "ALL" \/ calcTrades[i].timestamp >= ResolvedStart)
        => InSeq(calcTrades[i], filterOut[1])

\* The filter applied with TODAY to a list holding the trade at the largest
\* instant and a trade before today: the first is kept, the second is not.
C19_Witness ==
  /\ filterOut # << >>
  /\ filterArgs.tf = "TODAY"
  /\ \E i \in 1..Len(calcTrades) :
       calcTrades[i].timestamp = MaxDate /\ InSeq(calcTrades[i], filterOut[1])
  /\ \E i \in 1..Len(calcTrades) : ~InSeq(calcTrades[i], filterOut[1])

\* One of the form's required fields is left empty.
MissingRequired(f) ==
  \E k \in {"symbol", "buyPrice", "quantity", "date"} : Len(f[k]) = 0

\* The form is submitted with the fields f.
SubmitStep(f) == Alone(Submit(f)) \/ Alone(SubmitRejected(f))

\* C20: a submit of the form with symbol, buy price, quantity or date empty
\* creates no record and changes none: the list and the stored item stay as
\* they are and the form stays open.
C20_IncompleteSubmitChangesNothing ==
  [][\A f \in FormInputs \cup IncompleteForms :
       (MissingRequired(f) /\ SubmitStep(f)) =>
         /\ trades' = trades
         /\ storage' = storage
         /\ isModalOpen' = TRUE
         /\ editingTrade' = editingTrade]_vars

\* The form of an edited record was submitted with a required field empty
\* and is still open, the list holding records.
C20_Witness ==
  /\ app = "running"
  /\ isModalOpen
  /\ editingTrade # << >>
  /\ form \in IncompleteForms
  /\ MissingRequired(form)
  /\ Len(trades) > 0

\* The positions of a list holding a record with an id.
PositionsOf(ts, id) == {k \in 1..Len(ts) : ts[k].id = id}

\* C21: a saved edit replaces exactly the record with the edited trade's id,
\* which keeps its id and its position, and leaves every other record as it
\* was; a create appends one record and leaves the existing ones as they
\* were; a delete removes only the record with the given id; a delete whose
\* confirmation is declined leaves the list as it was.
C21_MutationsTouchOneRecord ==
  [][/\ \A f \in FormInputs :
          (Submit(f) /\ editingTrade # << >>) =>
            /\ Len(trades') = Len(trades)
            /\ Cardinality(PositionsOf(trades, editingTrade[1].id)) = 1
            /\ \A k \in 1..Len(trades) :
                 IF trades[k].id = editingTrade[1].id
                 THEN trades'[k].id = trades[k].id
                 ELSE trades'[k] = trades[k]
     /\ \A f \in FormInputs :
          (Submit(f) /\ editingTrade = << >>) =>
            /\ Len(trades') = Len(trades) + 1
            /\ SubSeq(trades', 1, Len(trades)) = trades
     /\ \A i \in 1..MaxRow :
          DeleteClick(i) =>
            /\ Len(trades') = Len(trades) - 1
            /\ \E k \in PositionsOf(trades, Rows[i].id) :
                 trades' = RemoveAt(trades, k)
     /\ \A i \in 1..MaxRow : DeleteDeclined(i) => trades' = trades]_vars

\* The days on which a trade of the list was closed.
ClosedDays == {calcTrades[i].date[1] : i \in ClosedAt}

\* The sum of the profits of the closed trades of a day.
ProfitOfDay(day) ==
  LET at == {i \in ClosedAt : calcTrades[i].date[1] = day}
  IN SumOver(at, [i \in at |-> ProfitAt(i)])

\* C22: the series has one tuple for each date of a closed trade and no
\* other, in strictly ascending order of the dates; a tuple's dailyProfit is
\* the sum of the profits of the closed trades of its date and its cumulative
\* value the sum of dailyProfit up to it; open trades add nothing.
C22_SeriesPerDateAscending ==
  chartData # << >> =>
    /\ {Series[k].date[1] : k \in 1..Len(Series)} = ClosedDays
    /\ \A k \in 1..(Len(Series) - 1) : Series[k].date[1] < Series[k + 1].date[1]
    /\ \A k \in 1..Len(Series) :
         /\ Series[k].dailyProfit = ProfitOfDay(Series[k].date[1])
         /\ Series[k].cumulative =
              SumOver(1..k, [j \in 1..k |-> Series[j].dailyProfit])

\* The positions of the closed trades of a symbol, and the first of them.
ClosedOf(symbol) == {i \in ClosedAt : calcTrades[i].symbol = symbol}
FirstClosedOf(symbol) == CHOOSE i \in ClosedOf(symbol) : \A j \in ClosedOf(symbol) : i <= j

\* C23: the ranking has one row for each symbol with a closed trade and no
\* other, with totalProfit the sum of the profits of the symbol's closed
\* trades and avgProfit that sum over their number; the rows are in
\* non-increasing order of totalProfit, and rows of equal totalProfit are in
\* the order in which their symbols first occur in the list.
C23_RankingStableDescending ==
  tickerPerformance # << >> =>
    /\ {Ranking[k].symbol : k \in 1..Len(Ranking)} =
         {calcTrades[i].symbol : i \in ClosedAt}
    /\ \A k, l \in 1..Len(Ranking) : Ranking[k].symbol = Ranking[l].symbol => k = l
    /\ \A k \in 1..Len(Ranking) :
         LET at == ClosedOf(Ranking[k].symbol) IN
         /\ Ranking[k].totalProfit = SumOver(at, [i \in at |-> ProfitAt(i)])
         /\ Ranking[k].avgProfit = Frac(Ranking[k].totalProfit, Cardinality(at))
    /\ \A k \in 1..(Len(Ranking) - 1) :
         \/ Ranking[k].totalProfit > Ranking[k + 1].totalProfit
         \/ /\ Ranking[k].totalProfit = Ranking[k + 1].totalProfit
            /\ FirstClosedOf(Ranking[k].symbol) < FirstClosedOf(Ranking[k + 1].symbol)

\* The positions of the trades of a symbol, open and closed.
TradesOf(symbol) == {i \in 1..Len(calcTrades) : calcTrades[i].symbol = symbol}

\* C24: the allocation has one row for each symbol of the list and no other,
\* with shares the sum of quantity and the invested amount the sum of
\* buyPrice * quantity over the symbol's trades, open and closed; the rows
\* are in non-increasing order of the invested amount, and their invested
\* amounts sum to the total of buyPrice * quantity over the list.
C24_AllocationPerSymbol ==
  portfolioData # << >> =>
    /\ {Allocation[k].symbol : k \in 1..Len(Allocation)} =
         {calcTrades[i].symbol : i \in 1..Len(calcTrades)}
    /\ \A k, l \in 1..Len(Allocation) :
         Allocation[k].symbol = Allocation[l].symbol => k = l
    /\ \A k \in 1..Len(Allocation) :
         LET at == TradesOf(Allocation[k].symbol) IN
         /\ Allocation[k].shares = SumOver(at, [i \in at |-> calcTrades[i].quantity])
         /\ Allocation[k].amount =
              SumOver(at, [i \in at |-> calcTrades[i].buyPrice * calcTrades[i].quantity])
    /\ \A k \in 1..(Len(Allocation) - 1) :
         Allocation[k].amount >= Allocation[k + 1].amount
    /\ SumOver(1..Len(Allocation), [k \in 1..Len(Allocation) |-> Allocation[k].amount])
         = TotalInvested

\* The allocation of a list of two symbols, one of them with an open and a
\* closed trade, whose first symbol is not the one with the most invested.
C24_Witness ==
  /\ portfolioData # << >>
  /\ Len(Allocation) = 2
  /\ Allocation[1].symbol # calcTrades[1].symbol
  /\ Allocation[1].amount > Allocation[2].amount
  /\ \E k \in 1..2 :
       /\ TradesOf(Allocation[k].symbol) \cap ClosedAt # {}
       /\ TradesOf(Allocation[k].symbol) \ ClosedAt # {}

\* C25: analyzeTrades and getStockPrice never reject, whatever the external
\* service does: analyzeTrades resolves to a string, and getStockPrice to
\* null or to a value with a price and a text.
C25_ServiceCallsNeverReject ==
  \A i \in 1..Len(settled) :
    /\ settled[i].result.state = "fulfilled"
    /\ settled[i].fn = "analyzeTrades" =>
         /\ DOMAIN settled[i].result.value = {"type", "text"}
         /\ settled[i].result.value.type = "string"
    /\ settled[i].fn = "getStockPrice" =>
         \/ settled[i].result.value = Null
         \/ DOMAIN settled[i].result.value = {"price", "text"}

\* Both functions were called while the service threw, and both settled.
C25_Witness ==
  /\ Len(settled) = 2
  /\ settled[1].fn # settled[2].fn
  /\ \A i \in 1..2 : settled[i].outcome = "error"

\* Two lists hold the same records, each as many times.
SameRecords(a, b) ==
  /\ Len(a) = Len(b)
  /\ \A i \in 1..Len(a) :
       Cardinality({j \in 1..Len(a) : a[j] = a[i]}) =
         Cardinality({j \in 1..Len(b) : b[j] = a[i]})

\* C26: after creates, updates and deletes, a restart of the application
\* (the trades initializer run on the stored item) gives a list with the
\* records the list had before the restart, however many they are.
C26_RestartKeepsRecords ==
  (app = "running" /\ ops > 0) =>
    /\ InitialTrades(storage, now) # {}
    /\ \A ts \in InitialTrades(storage, now) : SameRecords(ts, Sanitize(trades))

\* C27: the ticker's loading flag is true in every state in which a run of
\* fetchPrices has not finished, however the runs overlap.
C27_LoadingWhileRunPending ==
  Len(tickerRuns) > 0 => loading

\* C28: whenever the form shows a fetched price (the modal is open and
\* fetchedPrice is not null), that price is a result of a lookup for the
\* symbol now in the form.
C28_FetchedPriceIsForSymbol ==
  (isModalOpen /\ fetchedPrice # Null) => fetchedPrice \in LookupResults(form.symbol)

\* A list is another one with one record more.
OneMore(before, after) ==
  \E k \in 1..Len(after) : SameRecords(before, RemoveAt(after, k))

\* A list is another one with record t replaced by a record of t's id and
\* nothing else changed.
OnlyReplaced(before, after, t) ==
  \E k \in 1..Len(before), l \in 1..Len(after) :
    /\ before[k] = t
    /\ after[l].id = t.id
    /\ SameRecords(RemoveAt(before, k), RemoveAt(after, l))

\* C29: the form is opened only by 'Record Trade', which marks no trade as
\* edited, or by 'Edit' on a row, which marks that row's trade, and the mark
\* stays while the form is open; a save with no trade marked adds one record
\* and keeps the others, a save with trade T marked changes only T; after a
\* save the modal is closed and no trade is marked.
C29_SaveFollowsHowFormWasOpened ==
  [][/\ NewTradeClick => (isModalOpen' /\ editingTrade' = << >>)
     /\ \A i \in 1..MaxRow : EditClick(i) => (isModalOpen' /\ editingTrade' = << Rows[i] >>)
     /\ (~isModalOpen /\ isModalOpen') => (NewTradeClick \/ \E i \in 1..MaxRow : EditClick(i))
     /\ (isModalOpen /\ isModalOpen') => editingTrade' = editingTrade
     /\ \A f \in FormInputs :
          Submit(f) =>
            /\ ~isModalOpen'
            /\ editingTrade' = << >>
            /\ IF editingTrade = << >>
               THEN OneMore(trades, trades')
               ELSE OnlyReplaced(trades, trades', editingTrade[1])]_vars

\* The run named k is pending.
RunPending(k) == \E i \in 1..Len(tickerRuns) : tickerRuns[i].id = k

\* What a response does to the price map: a finishing run leaves loading
\* false and every price it found in the map; a null response removes no
\* price and leaves the price of its symbol as it was.
C30_ResponseStep ==
  \A i \in 1..MaxRuns + 1 : \A symbol \in {AAPL, TSLA} :
    \A r \in LookupResults(symbol) :
    TickerResult(i, symbol, r) =>
      /\ Cardinality(tickerRuns[i].pending) = 1 =>
           /\ ~loading'
           /\ \A s \in DOMAIN tickerRuns[i].newPrices :
                s \in DOMAIN prices' /\ prices'[s] = tickerRuns[i].newPrices[s]
           /\ r # Null => (symbol \in DOMAIN prices' /\ prices'[symbol] = r.v)
      /\ r = Null =>
           /\ DOMAIN prices \subseteq DOMAIN prices'
           /\ symbol \in DOMAIN prices => prices'[symbol] = prices[symbol]

\* C30: with every lookup answered in the end, every run of fetchPrices
\* finishes, after a pending run loading is false in the end, every price a
\* finished run found is in the price map, and a null response removes or
\* changes no price in the map.
C30_RunsFinishAndPricesKept ==
  /\ \A k \in 0..MaxRuns : RunPending(k) ~> ~RunPending(k)
  /\ (Len(tickerRuns) > 0) ~> ~loading
  /\ [][C30_ResponseStep]_vars

\* A run for two held symbols has finished with a price for one and null
\* for the other: no run is pending, loading is false, and the price map
\* holds the one price.
C30_Witness ==
  /\ app = "running"
  /\ tickerRuns = << >>
  /\ ~loading
  /\ DOMAIN prices # {}
  /\ \E k \in 1..Len(HeldSymbols(trades)) : HeldSymbols(trades)[k] \notin DOMAIN prices

=============================================================================
